---- MODULE Spec2Model ----
(***************************************************************************)
(* Model of the equine pedigree front end (src/src/App.jsx, main.jsx):     *)
(* the App component's state and handlers, the HorseForm component, the    *)
(* record store it talks to, and the ancestry-tree builder                 *)
(* buildD3AncestryData.                                                    *)
(*                                                                         *)
(* JavaScript values that are compared with === are modelled as tagged     *)
(* values [k, s]: k is the type ("null", "num", "str") and s the decimal   *)
(* or character string, as a sequence of one-character strings.  Optional  *)
(* results (Array.prototype.find, a tree or null) are sequences of length  *)
(* at most one.                                                            *)
(***************************************************************************)
EXTENDS Integers, Sequences, FiniteSets, TLC

VARIABLES
    horses,           \* App state: the in-memory collection (a JS array)
    loading,          \* App state
    error,            \* App state: <<>> for null, else <<message>>
    viewMode,         \* App state
    selectedHorseId,  \* App state
    isSharedView,     \* App state
    shareMessage,     \* App state
    form,             \* HorseForm state (the initial values while unmounted)
    mounted,          \* whether App's mount effect has run
    crashed,          \* the mount effect threw: React has unmounted the tree
    location,         \* window.location.search: the raw id and shared parameters
    sharedLink,       \* the share URL of the horse on display, once handed out
    db,               \* the store's table cavalos, in insertion order
    idKind,           \* the type of the table's id column: "num" or "str"
    inflight,         \* the requests awaiting their response
    addOp,            \* the course of the current or last addHorse call
    fetchOp,          \* the course of the current or last fetchHorses call
    treeRoot,         \* LineageTreeD3 prop rootHorse (<<>> when absent)
    treeDepth,        \* the maxDepth handed to buildD3AncestryData
    treeData,         \* its result (<<>> for null)
    treeBuilt         \* whether the tree effect has built a tree

appVars == <<loading, error, viewMode, selectedHorseId, isSharedView, shareMessage,
             form, mounted, crashed, location, sharedLink, db, idKind, inflight, addOp,
             fetchOp>>

treeVars == <<treeRoot, treeDepth, treeData, treeBuilt>>

vars == <<horses, appVars, treeVars>>

\* ------------------------------------------------------------------ bounds

\* Rows the store's table holds at most.
MaxHorses == 3
\* Requests in flight at most: no handler sends one beyond that.
MaxInflight == 2
\* Horses in a collection handed to the tree builder on its own.
NumTreeHorses == 3
\* Parent references (pai_id, mae_id) set in such a collection.
MaxTreeRefs == 3
\* Largest maxDepth handed to the tree builder on its own.
MaxTreeDepth == 4

\* ------------------------------------------------------- JavaScript values

Null == [k |-> "null", s |-> <<>>]
Num(s) == [k |-> "num", s |-> s]
Str(s) == [k |-> "str", s |-> s]

\* ToBoolean: null, 0 and "" are falsy.
Truthy(v) ==
    /\ v.k # "null"
    /\ ~(v.k = "num" /\ v.s = <<"0">>)
    /\ ~(v.k = "str" /\ v.s = <<>>)

\* Identifiers the store hands out when its id column is numeric, and when
\* it holds text.
NumIdList == << <<"1">>, <<"2">>, <<"3">>, <<"4">>, <<"5">>, <<"6">> >>
StrIdList == << <<"4", "2">>, <<"%", "2", "5">>, <<"2", "%">>, <<"5">>, <<"2", "4">>, <<"4">> >>

IdAt(kind, i) == IF kind = "num" THEN Num(NumIdList[i]) ELSE Str(StrIdList[i])

\* The identifiers in use and one more, which no row ever has.
IdPool(kind) == {IdAt(kind, i) : i \in 1..(MaxHorses + 1)}

\* The two values of the sexo column, as character sequences ("e^" stands
\* for the single letter e with circumflex).
Macho == <<"M", "a", "c", "h", "o">>
Femea == <<"F", "e^", "m", "e", "a">>

Max(S) == CHOOSE x \in S : \A y \in S : y <= x

Range(f) == {f[i] : i \in DOMAIN f}

\* ------------------------------------------------------------ strings

\* Strings are sequences of one-character strings.  The letters of the
\* model's alphabet and their case mapping.
LowerLetters == {"a", "b", "c", "e", "e^", "f", "h", "m", "o", "r"}
UpperLetters == {"A", "B", "C", "E", "E^", "F", "H", "M", "O", "R"}

ToUpperChar(c) ==
    CASE c = "a" -> "A" [] c = "b" -> "B" [] c = "c" -> "C" [] c = "e" -> "E"
      [] c = "e^" -> "E^" [] c = "f" -> "F" [] c = "h" -> "H" [] c = "m" -> "M"
      [] c = "o" -> "O" [] c = "r" -> "R" [] OTHER -> c

ToLowerChar(c) ==
    CASE c = "A" -> "a" [] c = "B" -> "b" [] c = "C" -> "c" [] c = "E" -> "e"
      [] c = "E^" -> "e^" [] c = "F" -> "f" [] c = "H" -> "h" [] c = "M" -> "m"
      [] c = "O" -> "o" [] c = "R" -> "r" [] OTHER -> c

\* \p{L}
IsLetter(c) == c \in LowerLetters \cup UpperLetters

\* The characters the pattern allows before a capitalized letter:
\* whitespace, /, -, ' and ".
IsWordBreak(c) == c \in {" ", "/", "-", "'", "\""}

\* str.toLowerCase()
ToLowerCase(str) == [i \in 1..Len(str) |-> ToLowerChar(str[i])]

\* capitalizeEachWord: lower-cases, then upper-cases every letter that
\* starts the string or follows a word break ('' for an empty string).
capitalizeEachWord(str) ==
    IF str = <<>> THEN <<>>
    ELSE LET low == ToLowerCase(str)
         IN  [i \in 1..Len(low) |->
                IF IsLetter(low[i]) /\ (i = 1 \/ IsWordBreak(low[i - 1]))
                THEN ToUpperChar(low[i]) ELSE low[i]]

\* Decimal digits.
DigitValue(c) ==
    CASE c = "0" -> 0 [] c = "1" -> 1 [] c = "2" -> 2 [] c = "3" -> 3 [] c = "4" -> 4
      [] c = "5" -> 5 [] c = "6" -> 6 [] c = "7" -> 7 [] c = "8" -> 8 [] c = "9" -> 9

\* parseInt of a string of decimal digits.
RECURSIVE ParseInt(_)
ParseInt(str) ==
    IF str = <<>> THEN 0
    ELSE 10 * ParseInt(SubSeq(str, 1, Len(str) - 1)) + DigitValue(str[Len(str)])

\* Collation weights of a.localeCompare(b): the primary weight orders the
\* letters without case (a space and punctuation first, then digits, then
\* letters); the tertiary weight puts a lower-case letter before its
\* upper-case form.
PrimaryWeight(c) ==
    LET l == ToLowerChar(c)
    IN  CASE l = " " -> 1 [] l = "-" -> 2 [] l = "/" -> 3 [] l = "'" -> 4 [] l = "\"" -> 5
          [] l \in {"0", "1", "2", "3", "4", "5", "6", "7", "8", "9"} -> 10 + DigitValue(l)
          [] l = "a" -> 20 [] l = "b" -> 21 [] l = "c" -> 22 [] l = "e" -> 23
          [] l = "e^" -> 23 [] l = "f" -> 24 [] l = "h" -> 25 [] l = "m" -> 26
          [] l = "o" -> 27 [] l = "r" -> 28 [] OTHER -> 40

TertiaryWeight(c) == IF c \in UpperLetters THEN 1 ELSE 0

\* Lexicographic comparison of two weight sequences: -1, 0 or 1.
RECURSIVE CompareWeights(_, _)
CompareWeights(a, b) ==
    IF a = <<>> /\ b = <<>> THEN 0
    ELSE IF a = <<>> THEN -1
    ELSE IF b = <<>> THEN 1
    ELSE IF Head(a) < Head(b) THEN -1
    ELSE IF Head(a) > Head(b) THEN 1
    ELSE CompareWeights(Tail(a), Tail(b))

\* a.localeCompare(b)
localeCompare(a, b) ==
    LET primary == CompareWeights([i \in 1..Len(a) |-> PrimaryWeight(a[i])],
                                  [i \in 1..Len(b) |-> PrimaryWeight(b[i])])
    IN  IF primary # 0 THEN primary
        ELSE CompareWeights([i \in 1..Len(a) |-> TertiaryWeight(a[i])],
                            [i \in 1..Len(b) |-> TertiaryWeight(b[i])])

\* Inserts h into the sorted array after the entries that do not come after it.
RECURSIVE InsertByName(_, _)
InsertByName(sorted, h) ==
    IF sorted = <<>> THEN <<h>>
    ELSE IF localeCompare(h.nome, Head(sorted).nome) < 0 THEN <<h>> \o sorted
    ELSE <<Head(sorted)>> \o InsertByName(Tail(sorted), h)

\* arr.sort((a, b) => a.nome.localeCompare(b.nome)): a stable sort.
RECURSIVE SortByName(_)
SortByName(arr) ==
    IF arr = <<>> THEN <<>>
    ELSE InsertByName(SortByName(SubSeq(arr, 1, Len(arr) - 1)), arr[Len(arr)])

\* ------------------------------------------------------- URL encoding

\* encodeURIComponent on the model's alphabet (digits, letters and "%"):
\* every character but "%" is unreserved.
RECURSIVE encodeURIComponent(_)
encodeURIComponent(str) ==
    IF str = <<>> THEN <<>>
    ELSE (IF Head(str) = "%" THEN <<"%", "2", "5">> ELSE <<Head(str)>>)
         \o encodeURIComponent(Tail(str))

\* The hexadecimal digits that occur in the model's strings, and the
\* character each escape %xy of two of them stands for.
HexDigits == {"2", "4", "5"}

EscapedChar(x, y) ==
    CASE x = "2" /\ y = "2" -> "\""
      [] x = "2" /\ y = "4" -> "$"
      [] x = "2" /\ y = "5" -> "%"
      [] x = "4" /\ y = "2" -> "B"
      [] x = "4" /\ y = "4" -> "D"
      [] x = "4" /\ y = "5" -> "E"
      [] x = "5" /\ y = "2" -> "R"
      [] x = "5" /\ y = "4" -> "T"
      [] x = "5" /\ y = "5" -> "U"

IsEscapeAt(str) ==
    Len(str) >= 3 /\ str[1] = "%" /\ str[2] \in HexDigits /\ str[3] \in HexDigits

\* URLSearchParams: percent-decoding of a parameter value; a "%" that does
\* not start an escape is kept.
RECURSIVE PercentDecode(_)
PercentDecode(str) ==
    IF str = <<>> THEN <<>>
    ELSE IF IsEscapeAt(str)
         THEN <<EscapedChar(str[2], str[3])>> \o PercentDecode(SubSeq(str, 4, Len(str)))
         ELSE <<Head(str)>> \o PercentDecode(Tail(str))

\* decodeURIComponent: <<decoded>>, or <<>> when it throws URIError for a
\* "%" that does not start an escape.
RECURSIVE decodeURIComponent(_)
decodeURIComponent(str) ==
    IF str = <<>> THEN << <<>> >>
    ELSE IF IsEscapeAt(str)
         THEN LET rest == decodeURIComponent(SubSeq(str, 4, Len(str)))
              IN  IF rest = <<>> THEN <<>>
                  ELSE << <<EscapedChar(str[2], str[3])>> \o rest[1] >>
         ELSE IF Head(str) = "%" THEN <<>>
         ELSE LET rest == decodeURIComponent(Tail(str))
              IN  IF rest = <<>> THEN <<>> ELSE << <<Head(str)>> \o rest[1] >>

\* String(v) for an id: the characters of a string, the decimal digits of a
\* number.
StringOf(v) == v.s

\* ---------------------------------------------------------- ancestry tree

\* allHorses.find(h => h.id === id): the first record whose id is id.
Find(allHorses, id) ==
    LET hits == {i \in DOMAIN allHorses : allHorses[i].id = id}
    IN  IF hits = {} THEN <<>>
        ELSE <<allHorses[CHOOSE i \in hits : \A j \in hits : i <= j]>>

\* Mutant: a parent id that no record has is given a placeholder record.
ResolveParentPlaceholder(parentId, allHorses) ==
    IF ~Truthy(parentId) THEN <<>>
    ELSE IF Find(allHorses, parentId) # <<>> THEN Find(allHorses, parentId)
    ELSE << [id |-> parentId, nome |-> <<"?">>, raca |-> <<>>, idade |-> 0,
             sexo |-> <<>>, url_imagem |-> Null, pai_id |-> Null, mae_id |-> Null] >>

\* horse.pai_id ? allHorses.find(...) : null
ResolveParent(parentId, allHorses) ==
    IF Truthy(parentId) THEN Find(allHorses, parentId) ELSE <<>>

\* Mutant: the expansion stops one generation early.
ExpandsEarlyStop(currentDepth, maxDepth) == currentDepth < maxDepth - 2

\* The guard of the expansion: currentDepth < maxDepth - 1.
Expands(currentDepth, maxDepth) == currentDepth < maxDepth - 1

\* Mutant: the mother is pushed before the father.
PushChildrenMotherFirst(father, fatherTree, mother, motherTree) ==
    LET pushed == (IF mother # <<>> THEN <<motherTree>> ELSE <<>>)
                  \o (IF father # <<>> THEN <<fatherTree>> ELSE <<>>)
        kept == SelectSeq(pushed, LAMBDA child : child # <<>>)
    IN  [i \in 1..Len(kept) |-> kept[i][1]]

\* Mutant: a parent already pushed as father is not pushed again as mother.
PushChildrenDedup(father, fatherTree, mother, motherTree) ==
    LET pushed == (IF father # <<>> THEN <<fatherTree>> ELSE <<>>)
                  \o (IF mother # <<>> /\ mother # father THEN <<motherTree>> ELSE <<>>)
        kept == SelectSeq(pushed, LAMBDA child : child # <<>>)
    IN  [i \in 1..Len(kept) |-> kept[i][1]]

\* node.children after the two pushes and the filter of null entries;
\* fatherTree and motherTree are <<>> when the parent did not resolve.
PushChildren(father, fatherTree, mother, motherTree) ==
    LET pushed == (IF father # <<>> THEN <<fatherTree>> ELSE <<>>)
                  \o (IF mother # <<>> THEN <<motherTree>> ELSE <<>>)
        kept == SelectSeq(pushed, LAMBDA child : child # <<>>)
    IN  [i \in 1..Len(kept) |-> kept[i][1]]

RECURSIVE buildD3AncestryData(_, _, _, _)

\* Mutant: maxDepth is taken as a number of edges, so both guards are off
\* by one and one generation too many is materialized.
buildD3AncestryDataDeeper(horse, allHorses, maxDepth, currentDepth) ==
    IF horse = <<>> \/ currentDepth > maxDepth THEN <<>>
    ELSE
        LET h == horse[1]
            father == ResolveParent(h.pai_id, allHorses)
            mother == ResolveParent(h.mae_id, allHorses)
            children ==
                IF currentDepth < maxDepth
                THEN PushChildren(
                        father,
                        buildD3AncestryData(father, allHorses, maxDepth, currentDepth + 1),
                        mother,
                        buildD3AncestryData(mother, allHorses, maxDepth, currentDepth + 1))
                ELSE <<>>
        IN  << [id |-> h.id, name |-> h.nome, breed |-> h.raca, age |-> h.idade,
                sex |-> h.sexo, photoUrl |-> h.url_imagem, children |-> children] >>

buildD3AncestryData(horse, allHorses, maxDepth, currentDepth) ==
    IF horse = <<>> \/ currentDepth >= maxDepth THEN <<>>
    ELSE
        LET h == horse[1]
            father == ResolveParent(h.pai_id, allHorses)
            mother == ResolveParent(h.mae_id, allHorses)
            children ==
                IF Expands(currentDepth, maxDepth)
                THEN PushChildren(
                        father,
                        buildD3AncestryData(father, allHorses, maxDepth, currentDepth + 1),
                        mother,
                        buildD3AncestryData(mother, allHorses, maxDepth, currentDepth + 1))
                ELSE <<>>
        IN  << [id |-> h.id, name |-> h.nome, breed |-> h.raca, age |-> h.idade,
                sex |-> h.sexo, photoUrl |-> h.url_imagem, children |-> children] >>

\* ------------------------------------------------- measures of a tree

\* The children of a sequence of nodes, left to right.
RECURSIVE ChildrenOfAll(_)
ChildrenOfAll(nodes) ==
    IF nodes = <<>> THEN <<>>
    ELSE Head(nodes).children \o ChildrenOfAll(Tail(nodes))

\* The nodes of tree t (<<>> or <<root>>) at 0-indexed depth k, left to right.
RECURSIVE TreeLevel(_, _)
TreeLevel(t, k) == IF k = 0 THEN t ELSE TreeLevel(ChildrenOfAll(t), k - 1)

\* Longest root-to-leaf path below a sequence of sibling nodes, counted in
\* nodes (0 for no node).
RECURSIVE TreeHeight(_)
TreeHeight(nodes) ==
    IF nodes = <<>> THEN 0 ELSE 1 + TreeHeight(ChildrenOfAll(nodes))

\* Number of nodes at and below a sequence of sibling nodes.
RECURSIVE TreeSize(_)
TreeSize(nodes) ==
    IF nodes = <<>> THEN 0 ELSE Len(nodes) + TreeSize(ChildrenOfAll(nodes))

RECURSIVE SeqSum(_)
SeqSum(q) == IF q = <<>> THEN 0 ELSE Head(q) + SeqSum(Tail(q))

\* ------------------------------------ the pedigree graph of a collection

Ids(coll) == {coll[i].id : i \in DOMAIN coll}

\* The parent references of the records with id x that name a record of coll.
ResolvedParents(coll, x) ==
    UNION {{coll[i].pai_id, coll[i].mae_id} : i \in {j \in DOMAIN coll : coll[j].id = x}}
        \cap Ids(coll)

\* Length in nodes of the longest ancestor chain from the ids in S, cut at
\* cap (a cycle gives chains of every length).
RECURSIVE ChainFrom(_, _, _)
ChainFrom(coll, S, cap) ==
    IF S = {} \/ cap = 0 THEN 0
    ELSE 1 + ChainFrom(coll, UNION {ResolvedParents(coll, x) : x \in S}, cap - 1)

LongestChain(coll, x, cap) == ChainFrom(coll, {x}, cap)

Min2(a, b) == IF a <= b THEN a ELSE b

\* The ids reached from the ids in S by at most n parent steps.
RECURSIVE Ancestors(_, _, _)
Ancestors(coll, S, n) ==
    IF n = 0 THEN S
    ELSE Ancestors(coll, S \cup UNION {ResolvedParents(coll, x) : x \in S}, n - 1)

\* x is its own ancestor.
OnCycle(coll, x) == x \in Ancestors(coll, ResolvedParents(coll, x), Len(coll))

HasCycle(coll) == \E x \in Ids(coll) : OnCycle(coll, x)

\* Parent slots (father, mother) of the record at position i that name the
\* record at position j.
Slots(coll, i, j) ==
    (IF coll[i].pai_id = coll[j].id THEN 1 ELSE 0)
        + (IF coll[i].mae_id = coll[j].id THEN 1 ELSE 0)

\* One parent step: from count, the number of walks ending at each record
\* of coll (by position), to the numbers one step further, from position j on.
RECURSIVE WalkStep(_, _, _)
WalkStep(coll, count, j) ==
    IF j > Len(coll) THEN <<>>
    ELSE <<SeqSum([i \in 1..Len(coll) |-> count[i] * Slots(coll, i, j)])>>
         \o WalkStep(coll, count, j + 1)

\* The walks of no step from the record with id x.
RECURSIVE UnitAt(_, _, _)
UnitAt(coll, x, j) ==
    IF j > Len(coll) THEN <<>>
    ELSE <<IF coll[j].id = x THEN 1 ELSE 0>> \o UnitAt(coll, x, j + 1)

CountId(nodes, y) == Len(SelectSeq(nodes, LAMBDA n : n.id = y))

\* A materialization of a present root with maxDepth >= 1 has happened.
Materialized == treeBuilt /\ treeRoot # <<>> /\ treeDepth >= 1

\* --------------------------------------------------------- the record store

\* maxGeneration of LineageTreeD3.
maxGeneration == 5

\* A public URL of an uploaded photo.
PhotoUrl == Str(<<"u">>)

Horse(id, nome, sexo, pai, mae) ==
    [id |-> id, nome |-> nome, raca |-> <<"R">>, idade |-> 3, sexo |-> sexo,
     url_imagem |-> Null, pai_id |-> pai, mae_id |-> mae]

\* Tables of the store: a stallion and a mare; the same two with a cycle, a
\* dangling reference and a mare as father; the two and their foal; the
\* three and a foal of the foal.  Rows are not in name order.
KnownTables(kind) ==
    LET a == IdAt(kind, 1)
        b == IdAt(kind, 2)
        c == IdAt(kind, 3)
        d == IdAt(kind, 4)
        gone == IdAt(kind, MaxHorses + 1)
    IN  { << Horse(a, <<"C", "a">>, Macho, Null, Null),
             Horse(b, <<"A", "b">>, Femea, Null, Null) >>,
          << Horse(a, <<"C", "a">>, Macho, b, gone),
             Horse(b, <<"A", "b">>, Femea, b, a) >>,
          << Horse(a, <<"C", "a">>, Macho, Null, Null),
             Horse(b, <<"A", "b">>, Femea, Null, Null),
             Horse(c, <<"B", "o">>, Macho, a, b) >>,
          << Horse(a, <<"C", "a">>, Macho, Null, Null),
             Horse(b, <<"A", "b">>, Femea, Null, Null),
             Horse(c, <<"B", "o">>, Macho, a, b),
             Horse(d, <<"A", "a">>, Femea, c, gone) >> }

\* The table when the page is first opened: full, or one row short of it.
SeedTables(kind) == {t \in KnownTables(kind) : Len(t) \in {MaxHorses - 1, MaxHorses}}

\* The value the store keeps for a parent reference sent as a string: the
\* id column's type decides.
StoredRef(kind, v) == IF v = Null THEN Null ELSE [k |-> kind, s |-> v.s]

\* The row the store creates for an insert, with the id it assigns.
NewRow(kind, id, data, photoUrl) ==
    [id |-> id, nome |-> data.name, raca |-> data.breed, idade |-> data.age,
     sexo |-> data.sex, url_imagem |-> photoUrl,
     pai_id |-> StoredRef(kind, data.fatherId),
     mae_id |-> StoredRef(kind, data.motherId)]

\* ------------------------------------------------------------ requests

NoData ==
    [name |-> <<>>, breed |-> <<>>, age |-> 0, sex |-> <<>>, fatherId |-> Null,
     motherId |-> Null, photoFile |-> FALSE]

\* The select of fetchHorses; by is "mount" or "retry".
FetchRequest(by) == [op |-> "fetch", by |-> by, data |-> NoData, photoUrl |-> Null]

\* The upload of addHorse's photo file.
UploadRequest(data) == [op |-> "upload", by |-> "submit", data |-> data, photoUrl |-> Null]

\* The insert of addHorse.
InsertRequest(data, photoUrl) ==
    [op |-> "insert", by |-> "submit", data |-> data, photoUrl |-> photoUrl]

Pending(op) == {i \in DOMAIN inflight : inflight[i].op = op}

Without(q, i) == SubSeq(q, 1, i - 1) \o SubSeq(q, i + 1, Len(q))

\* ------------------------------------------------------------ the form

EmptyForm ==
    [name |-> <<>>, breed |-> <<>>, age |-> <<>>, sex |-> <<>>, selectedFile |-> FALSE,
     fatherId |-> <<>>, motherId |-> <<>>]

\* What the user types or picks.
NameInputs == {<<>>, <<"b", "-", "a">>, <<"d">>}
BreedInputs == {<<>>, <<"r">>}
AgeInputs == {<<>>, <<"7">>}
SexInputs == {<<>>, Macho, Femea}

\* Mutant: the parent selects offer every horse, whatever its sex.
ParentOptionsAnySex(allHorses, sexo) ==
    {<<>>} \cup {StringOf(allHorses[i].id) : i \in DOMAIN allHorses}

\* The option values of a parent select: '' and the ids, as strings, of the
\* horses of the given sex.
ParentOptions(allHorses, sexo) ==
    {<<>>} \cup {StringOf(allHorses[i].id) : i \in {j \in DOMAIN allHorses : allHorses[j].sexo = sexo}}

\* Whether handleSubmit stops at its required-field check.
MissingRequired(f) == f.name = <<>> \/ f.breed = <<>> \/ f.age = <<>> \/ f.sex = <<>>

\* The object handleSubmit hands to onAddHorse.
newHorseData(f) ==
    [name |-> capitalizeEachWord(f.name),
     breed |-> capitalizeEachWord(f.breed),
     age |-> ParseInt(f.age),
     sex |-> capitalizeEachWord(f.sex),
     fatherId |-> IF f.fatherId = <<>> THEN Null ELSE Str(f.fatherId),
     motherId |-> IF f.motherId = <<>> THEN Null ELSE Str(f.motherId),
     photoFile |-> f.selectedFile]

\* ---------------------------------------------------------- addHorse

NoAdd ==
    [phase |-> "none", form |-> EmptyForm, before |-> <<>>, inserts |-> 0,
     failedAt |-> "", row |-> <<>>]

\* Mutant: a missing public URL is not an error, the row is inserted
\* without a photo.
AfterUploadIgnoringUrl(uploadError, publicUrl) ==
    IF uploadError THEN "throw" ELSE "insert"

\* What addHorse does once the upload has answered: it throws on an upload
\* error and on a missing public URL, and goes on to the insert otherwise.
AfterUpload(uploadError, publicUrl) ==
    IF uploadError THEN "throw"
    ELSE IF Truthy(publicUrl) THEN "insert"
    ELSE "throw"

\* No fetchHorses call to speak of.
NoFetch == [by |-> "", phase |-> "none"]

\* Mutant: fetchHorses does not reset the error before the select.
fetchHorsesBeginKeepsError(l, e) == [loading |-> TRUE, error |-> e]

\* fetchHorses up to its await: setLoading(true), setError(null).
fetchHorsesBegin(l, e) == [loading |-> TRUE, error |-> <<>>]

FetchFailedMessage == <<"Falha ao carregar cavalos">>
AddFailedMessage == <<"Falha ao adicionar cavalo">>

\* ------------------------------------------------------------ rendering

\* The panel App renders for a state.
ContentOf(cr, l, e, v, sel, h) ==
    IF cr THEN "blank"
    ELSE IF l THEN "loading"
    ELSE IF e # <<>> THEN "error"
    ELSE CASE v = "details" -> IF Find(h, sel) # <<>> THEN "details" ELSE "notFound"
           [] v = "add" -> "add"
           [] v = "lineageTree" -> IF Find(h, sel) # <<>> THEN "lineageTree" ELSE "rootNotFound"
           [] OTHER -> "list"

Content == ContentOf(crashed, loading, error, viewMode, selectedHorseId, horses)

\* The array held in state once the panel has rendered: HorseList sorts
\* the very array by name.
RenderedHorses(content, h) ==
    IF content = "list" /\ h # <<>> THEN SortByName(h) ELSE h

\* The state once React has rendered the updates of one handler: l, e, v,
\* sel and h are the values set for loading, error, viewMode,
\* selectedHorseId and horses, f the state of a form that stays mounted,
\* cr whether the handler threw out of an effect.
Render(cr, l, e, v, sel, h, f) ==
    LET content == ContentOf(cr, l, e, v, sel, h)
    IN  /\ crashed' = cr
        /\ loading' = l
        /\ error' = e
        /\ viewMode' = v
        /\ selectedHorseId' = sel
        /\ horses' = RenderedHorses(content, h)
        /\ form' = IF content = "add" /\ Content = "add" THEN f ELSE EmptyForm
        /\ treeBuilt' = (content = "lineageTree")
        /\ treeRoot' = IF content = "lineageTree" THEN Find(h, sel) ELSE <<>>
        /\ treeDepth' = IF content = "lineageTree" THEN maxGeneration ELSE 0
        /\ treeData' = IF content = "lineageTree"
                       THEN buildD3AncestryData(Find(h, sel), h, maxGeneration, 0)
                       ELSE <<>>

\* ------------------------------------------------------------ page load

NoParams == [id |-> <<>>, shared |-> <<>>]

TrueText == <<"t", "r", "u", "e">>

\* The query of `${origin}/?id=${encodeURIComponent(id)}&shared=true`.
ShareUrl(id) == [id |-> <<encodeURIComponent(StringOf(id))>>, shared |-> <<TrueText>>]

\* The URLs a user opens the page with, besides the links shared from the
\* page itself: no query, and a link to an id no horse has, shared or not.
TypedUrls(kind) ==
    { NoParams,
      ShareUrl(IdAt(kind, MaxHorses + 1)),
      [id |-> <<encodeURIComponent(StringOf(IdAt(kind, MaxHorses + 1)))>>, shared |-> <<>>] }

\* params.get(name): null (<<>>) or the decoded value.
ParamGet(raw) == IF raw = <<>> THEN <<>> ELSE <<PercentDecode(raw[1])>>

\* The state of a page just loaded: the useState initial values.
Constructed(url) ==
    /\ horses = <<>>
    /\ loading = TRUE
    /\ error = <<>>
    /\ viewMode = "list"
    /\ selectedHorseId = Null
    /\ isSharedView = FALSE
    /\ shareMessage = ""
    /\ form = EmptyForm
    /\ mounted = FALSE
    /\ crashed = FALSE
    /\ location = url
    /\ sharedLink = <<>>
    /\ inflight = <<>>
    /\ addOp = NoAdd
    /\ fetchOp = NoFetch
    /\ treeRoot = <<>>
    /\ treeDepth = 0
    /\ treeData = <<>>
    /\ treeBuilt = FALSE

Init ==
    /\ idKind \in {"num", "str"}
    /\ db \in SeedTables(idKind)
    /\ \E url \in TypedUrls(idKind) : Constructed(url)

\* The select of fetchHorses is sent.
StartFetch(by) == inflight' = Append(inflight, FetchRequest(by))

\* The requests sent by as many fetchHorses calls.
RECURSIVE FetchRequests(_)
FetchRequests(runs) ==
    IF runs = 0 THEN <<>> ELSE <<FetchRequest("mount")>> \o FetchRequests(runs - 1)

\* App's mount effect, run as many times as React runs it on mount:
\* fetchHorses(), then the query parameters.  A malformed escape makes
\* decodeURIComponent throw, and React unmounts the tree: nothing is
\* rendered or handled from then on.
MountEffect(runs) ==
    /\ ~mounted
    /\ mounted' = TRUE
    /\ LET horseIdParam == ParamGet(location.id)
           sharedParam == ParamGet(location.shared)
           hasId == horseIdParam # <<>> /\ horseIdParam[1] # <<>>
           decoded == IF hasId THEN decodeURIComponent(horseIdParam[1]) ELSE <<>>
       IN  IF hasId /\ decoded = <<>>
           THEN /\ inflight' = <<>>
                /\ fetchOp' = NoFetch
                /\ isSharedView' = isSharedView
                /\ Render(TRUE, TRUE, <<>>, viewMode, selectedHorseId, horses, form)
           ELSE /\ inflight' = inflight \o FetchRequests(runs)
                /\ fetchOp' = [by |-> "mount", phase |-> "pending"]
                /\ isSharedView' = (hasId /\ sharedParam = <<TrueText>>)
                /\ IF hasId
                   THEN Render(FALSE, fetchHorsesBegin(loading, error).loading,
                               fetchHorsesBegin(loading, error).error,
                               "details", Str(decoded[1]), horses, form)
                   ELSE Render(FALSE, fetchHorsesBegin(loading, error).loading,
                               fetchHorsesBegin(loading, error).error,
                               "list", selectedHorseId, horses, form)
    /\ UNCHANGED <<shareMessage, location, sharedLink, db, idKind, addOp>>

\* The mount effect of a production build: React.StrictMode does nothing.
Mount == MountEffect(1)

\* The mount effect of a development build: inside React.StrictMode the
\* effect is run, cleaned up (it returns no cleanup) and run again.
MountStrict == MountEffect(2)

\* The select answers with the rows: setHorses(data), setLoading(false).
FetchSucceeds ==
    \E i \in Pending("fetch") :
        /\ inflight' = Without(inflight, i)
        /\ fetchOp' = [by |-> inflight[i].by, phase |-> "done"]
        /\ Render(FALSE, FALSE, error, viewMode, selectedHorseId, db, form)
        /\ UNCHANGED <<isSharedView, shareMessage, mounted, location, sharedLink, db,
                       idKind, addOp>>

\* The select fails: setError(message), setLoading(false).
FetchFails ==
    \E i \in Pending("fetch") :
        /\ inflight' = Without(inflight, i)
        /\ fetchOp' = [by |-> inflight[i].by, phase |-> "failed"]
        /\ Render(FALSE, FALSE, FetchFailedMessage, viewMode, selectedHorseId, horses, form)
        /\ UNCHANGED <<isSharedView, shareMessage, mounted, location, sharedLink, db,
                       idKind, addOp>>

\* The button of the error panel: fetchHorses.
Retry ==
    /\ Content = "error"
    /\ Len(inflight) < MaxInflight
    /\ StartFetch("retry")
    /\ addOp' = NoAdd
    /\ fetchOp' = [by |-> "retry", phase |-> "pending"]
    /\ Render(FALSE, fetchHorsesBegin(loading, error).loading,
              fetchHorsesBegin(loading, error).error,
              viewMode, selectedHorseId, horses, form)
    /\ UNCHANGED <<isSharedView, shareMessage, mounted, location, sharedLink, db, idKind>>

\* goToHorseDetails(id)
goToHorseDetails(id) ==
    /\ isSharedView' = FALSE
    /\ addOp' = NoAdd /\ fetchOp' = NoFetch
    /\ sharedLink' = <<>>
    /\ Render(FALSE, loading, error, "details", id, horses, form)
    /\ UNCHANGED <<shareMessage, mounted, location, db, idKind, inflight>>

\* A click on an entry of HorseList.
SelectHorse ==
    /\ Content = "list"
    /\ \E i \in DOMAIN horses : goToHorseDetails(horses[i].id)

\* A setViewMode(v) of a navigation button that sets nothing else.
SetViewMode(v) ==
    /\ addOp' = NoAdd /\ fetchOp' = NoFetch
    /\ sharedLink' = <<>>
    /\ Render(FALSE, loading, error, v, selectedHorseId, horses, form)
    /\ UNCHANGED <<isSharedView, shareMessage, mounted, location, db, idKind, inflight>>

\* "+ Adicionar Cavalo" of HorseList, pressed while the table has room.
ClickAddHorse == Content = "list" /\ Len(db) < MaxHorses /\ SetViewMode("add")

\* onBack of HorseDetail; its buttons are rendered only outside a shared view.
DetailsBack ==
    /\ Content = "details"
    /\ ~isSharedView
    /\ isSharedView' = FALSE
    /\ addOp' = NoAdd /\ fetchOp' = NoFetch
    /\ sharedLink' = <<>>
    /\ Render(FALSE, loading, error, "list", selectedHorseId, horses, form)
    /\ UNCHANGED <<shareMessage, mounted, location, db, idKind, inflight>>

\* "Voltar para a lista" of the panel shown when no horse has the selected id.
NotFoundBack == Content = "notFound" /\ SetViewMode("list")

\* onViewLineage of HorseDetail.
ViewLineage == Content = "details" /\ ~isSharedView /\ SetViewMode("lineageTree")

\* handleShareClick: the link is built and copied; copied is whether
\* document.execCommand('copy') went through.
handleShareClick(copied) ==
    /\ Content = "details"
    /\ ~isSharedView
    /\ sharedLink' = ShareUrl(Find(horses, selectedHorseId)[1].id)
    /\ shareMessage' = IF copied THEN "copied" ELSE "manual"
    /\ addOp' = NoAdd /\ fetchOp' = NoFetch
    /\ UNCHANGED <<horses, loading, error, viewMode, selectedHorseId, isSharedView, form,
                   mounted, crashed, location, db, idKind, inflight, treeVars>>

\* The timer of fallbackCopyTextToClipboard: setShareMessage('').
ShareMessageTimeout ==
    /\ ~crashed
    /\ shareMessage # ""
    /\ shareMessage' = ""
    /\ UNCHANGED <<horses, loading, error, viewMode, selectedHorseId, isSharedView, form,
                   mounted, crashed, location, sharedLink, db, idKind, inflight, addOp,
                   fetchOp, treeVars>>

\* onBack of LineageTreeD3, from the tree and from its root-not-found panel.
LineageBack == Content \in {"lineageTree", "rootNotFound"} /\ SetViewMode("details")

\* The ids of the nodes drawn for a tree.
RECURSIVE NodeIds(_)
NodeIds(nodes) ==
    IF nodes = <<>> THEN {}
    ELSE {nodes[i].id : i \in DOMAIN nodes} \cup NodeIds(ChildrenOfAll(nodes))

\* A click on a node of the tree: onSelectHorse(d.data.id).
TreeNodeClick ==
    /\ Content = "lineageTree"
    /\ \E id \in NodeIds(treeData) : goToHorseDetails(id)

\* An onChange of HorseForm: the form state becomes f.
ChangeForm(f) ==
    /\ Content = "add"
    /\ f # form
    /\ form' = f
    /\ addOp' = NoAdd /\ fetchOp' = NoFetch
    /\ UNCHANGED <<horses, loading, error, viewMode, selectedHorseId, isSharedView,
                   shareMessage, mounted, crashed, location, sharedLink, db, idKind,
                   inflight, treeVars>>

SetName == \E v \in NameInputs : ChangeForm([form EXCEPT !.name = v])
SetBreed == \E v \in BreedInputs : ChangeForm([form EXCEPT !.breed = v])
SetAge == \E v \in AgeInputs : ChangeForm([form EXCEPT !.age = v])
SetSex == \E v \in SexInputs : ChangeForm([form EXCEPT !.sex = v])
SetFatherId == \E v \in ParentOptions(horses, Macho) : ChangeForm([form EXCEPT !.fatherId = v])
SetMotherId == \E v \in ParentOptions(horses, Femea) : ChangeForm([form EXCEPT !.motherId = v])

\* handleFileChange: an image file is kept, anything else clears the choice.
handleFileChange ==
    \E isImage \in BOOLEAN : ChangeForm([form EXCEPT !.selectedFile = isImage])

\* onCancel of HorseForm.
FormCancel == Content = "add" /\ SetViewMode("list")

\* handleSubmit with a required field empty: an alert and nothing else.
SubmitRejected ==
    /\ Content = "add"
    /\ MissingRequired(form)
    /\ UNCHANGED vars

\* handleSubmit: onAddHorse(data), that is addHorse up to its first await
\* (loading and error are reset, the upload or else the insert is sent), and
\* the reset of the form fields.
handleSubmit ==
    /\ Content = "add"
    /\ ~MissingRequired(form)
    /\ Len(inflight) < MaxInflight
    /\ LET data == newHorseData(form)
       IN  /\ inflight' = Append(inflight,
                            IF data.photoFile THEN UploadRequest(data)
                            ELSE InsertRequest(data, Null))
           /\ addOp' = [phase |-> IF data.photoFile THEN "upload" ELSE "insert",
                        form |-> form, before |-> horses,
                        inserts |-> IF data.photoFile THEN 0 ELSE 1,
                        failedAt |-> "", row |-> <<>>]
    /\ fetchOp' = NoFetch
    /\ Render(FALSE, TRUE, <<>>, viewMode, selectedHorseId, horses, EmptyForm)
    /\ UNCHANGED <<isSharedView, shareMessage, mounted, location, sharedLink, db, idKind>>

\* addHorse's catch and finally: setError(message), setLoading(false).
AddFails(i, at) ==
    /\ inflight' = Without(inflight, i)
    /\ addOp' = [addOp EXCEPT !.phase = "failed", !.failedAt = at]
    /\ Render(FALSE, FALSE, AddFailedMessage, viewMode, selectedHorseId, horses, form)
    /\ UNCHANGED <<isSharedView, shareMessage, mounted, location, sharedLink, db, idKind,
                   fetchOp>>

\* The upload answers, and getPublicUrl gives publicUrl (Null when it has
\* none): addHorse throws or sends the insert.
UploadAnswers ==
    \E i \in Pending("upload"), uploadError \in BOOLEAN, publicUrl \in {Null, PhotoUrl} :
        IF AfterUpload(uploadError, publicUrl) = "insert"
        THEN /\ inflight' = Append(Without(inflight, i),
                                   InsertRequest(inflight[i].data, publicUrl))
             /\ addOp' = [addOp EXCEPT !.phase = "insert", !.inserts = @ + 1]
             /\ UNCHANGED <<horses, loading, error, viewMode, selectedHorseId, isSharedView,
                            shareMessage, form, mounted, crashed, location, sharedLink, db,
                            idKind, fetchOp, treeVars>>
        ELSE AddFails(i, IF uploadError THEN "upload" ELSE "url")

\* The id the store gives its next row.
NextId ==
    IdAt(idKind, CHOOSE j \in 1..MaxHorses :
            /\ IdAt(idKind, j) \notin Ids(db)
            /\ \A k \in 1..(j - 1) : IdAt(idKind, k) \in Ids(db))

\* The insert answers with the created row: setHorses(prev => [...prev,
\* data[0]]), setViewMode('list'), setLoading(false).
InsertSucceeds ==
    \E i \in Pending("insert") :
        /\ Len(db) < MaxHorses
        /\ LET row == NewRow(idKind, NextId, inflight[i].data, inflight[i].photoUrl)
           IN  /\ db' = Append(db, row)
               /\ addOp' = [addOp EXCEPT !.phase = "done", !.row = <<row>>]
               /\ Render(FALSE, FALSE, error, "list", selectedHorseId, Append(horses, row), form)
        /\ inflight' = Without(inflight, i)
        /\ UNCHANGED <<isSharedView, shareMessage, mounted, location, sharedLink, idKind,
                       fetchOp>>

\* The insert fails.
InsertFails == \E i \in Pending("insert") : AddFails(i, "insert")

\* The link just shared is opened: the page is loaded anew with it.
OpenSharedLink ==
    /\ sharedLink # <<>>
    /\ Content = "details"
    /\ inflight = <<>>
    /\ location' = sharedLink
    /\ sharedLink' = <<>>
    /\ isSharedView' = FALSE
    /\ shareMessage' = ""
    /\ mounted' = FALSE
    /\ inflight' = <<>>
    /\ addOp' = NoAdd /\ fetchOp' = NoFetch
    /\ Render(FALSE, TRUE, <<>>, "list", Null, <<>>, EmptyForm)
    /\ UNCHANGED <<db, idKind>>

\* Every step but the mount effect.
Handlers ==
    \/ FetchSucceeds
    \/ FetchFails
    \/ Retry
    \/ SelectHorse
    \/ ClickAddHorse
    \/ DetailsBack
    \/ NotFoundBack
    \/ ViewLineage
    \/ \E copied \in BOOLEAN : handleShareClick(copied)
    \/ ShareMessageTimeout
    \/ LineageBack
    \/ TreeNodeClick
    \/ SetName
    \/ SetBreed
    \/ SetAge
    \/ SetSex
    \/ SetFatherId
    \/ SetMotherId
    \/ handleFileChange
    \/ FormCancel
    \/ SubmitRejected
    \/ handleSubmit
    \/ UploadAnswers
    \/ InsertSucceeds
    \/ InsertFails
    \/ OpenSharedLink

Next == Mount \/ Handlers

\* The production build.
Spec == Init /\ [][Next]_vars

\* The page of a development build, opened without a query on a table of
\* founders (no parents) that has room for a row.
InitStrict ==
    /\ idKind = "str"
    /\ db \in {t \in SeedTables(idKind) : Len(t) < MaxHorses /\ t[1].pai_id = Null}
    /\ Constructed(NoParams)

NextStrict == MountStrict \/ Handlers

\* The development build.
SpecStrict == InitStrict /\ [][NextStrict]_vars

\* ------------------------------------------- the tree builder on its own

TreeId(i) == Num(NumIdList[i])

TreeRefs == {Null} \cup {TreeId(i) : i \in 1..(NumTreeHorses + 1)}

TreeHorse(i, pai, mae) ==
    [id |-> TreeId(i), nome |-> <<"h", NumIdList[i][1]>>, raca |-> <<"r">>,
     idade |-> 3, sexo |-> IF i % 2 = 1 THEN Macho ELSE Femea,
     url_imagem |-> Null, pai_id |-> pai, mae_id |-> mae]

TreeInit ==
    /\ \E pai \in [1..NumTreeHorses -> TreeRefs], mae \in [1..NumTreeHorses -> TreeRefs] :
          /\ Cardinality({i \in 1..NumTreeHorses : pai[i] # Null})
                + Cardinality({i \in 1..NumTreeHorses : mae[i] # Null}) <= MaxTreeRefs
          /\ horses = [i \in 1..NumTreeHorses |-> TreeHorse(i, pai[i], mae[i])]
    /\ loading = FALSE
    /\ error = <<>>
    /\ viewMode = "lineageTree"
    /\ selectedHorseId = Null
    /\ isSharedView = FALSE
    /\ shareMessage = ""
    /\ form = EmptyForm
    /\ mounted = TRUE
    /\ crashed = FALSE
    /\ location = NoParams
    /\ sharedLink = <<>>
    /\ db = <<>>
    /\ idKind = "num"
    /\ inflight = <<>>
    /\ addOp = NoAdd
    /\ fetchOp = NoFetch
    /\ treeRoot = <<>>
    /\ treeDepth = 0
    /\ treeData = <<>>
    /\ treeBuilt = FALSE

\* One call buildD3AncestryData(rootHorse, horses, maxDepth).
Materialize(root, d) ==
    /\ ~treeBuilt
    /\ treeRoot' = root
    /\ treeDepth' = d
    /\ treeData' = buildD3AncestryData(root, horses, d, 0)
    /\ treeBuilt' = TRUE
    /\ UNCHANGED <<horses, appVars>>

TreeNext ==
    \E i \in 0..Len(horses), d \in 0..MaxTreeDepth :
        Materialize(IF i = 0 THEN <<>> ELSE <<horses[i]>>, d)

SpecTree == TreeInit /\ [][TreeNext]_vars

\* ------------------------------------------------------------ claims C1-C4

\* C1: materializing a present root with depth d >= 1 returns a tree whose
\* longest root-to-leaf path, in nodes, is min(d, longest ancestor chain
\* from the root through references that resolve), and no node at depth
\* d-1 has children.
C1_HeightIsMinDepthChain ==
    Materialized =>
        /\ treeData # <<>>
        /\ TreeHeight(treeData)
             = Min2(treeDepth, LongestChain(horses, treeRoot[1].id, MaxTreeDepth + 1))
        /\ \A n \in Range(TreeLevel(treeData, treeDepth - 1)) : n.children = <<>>

\* The depth bound cuts a longer chain: a node of the last generation has a
\* parent that resolves, and is returned without children.
C1_Witness ==
    /\ Materialized
    /\ treeDepth = 3
    /\ TreeHeight(treeData) = 3
    /\ LongestChain(horses, treeRoot[1].id, MaxTreeDepth + 1) > 3
    /\ \E n \in Range(TreeLevel(treeData, 2)) : ResolvedParents(horses, n.id) # {}

\* C2: on a collection whose parent graph has a cycle, materialize returns
\* (the evaluation ends) a tree, finite, with no node deeper than
\* maxDepth - 1 and so at most 2^maxDepth - 1 nodes.
C2_CyclicBounded ==
    (Materialized /\ HasCycle(horses)) =>
        /\ treeData # <<>>
        /\ TreeLevel(treeData, treeDepth) = <<>>
        /\ TreeSize(treeData) <= 2 ^ treeDepth - 1

\* A root on a cycle of two horses, unrolled to the full depth.
C2_Witness ==
    /\ Materialized
    /\ treeDepth = MaxTreeDepth
    /\ OnCycle(horses, treeRoot[1].id)
    /\ treeRoot[1].id \notin ResolvedParents(horses, treeRoot[1].id)
    /\ TreeHeight(treeData) = MaxTreeDepth

\* What C3 asks of one node n at a depth above the last generation.
ChildrenAsClaimed(n) ==
    LET h == Find(horses, n.id)
        f == IF h[1].pai_id \in Ids(horses) THEN <<h[1].pai_id>> ELSE <<>>
        m == IF h[1].mae_id \in Ids(horses) THEN <<h[1].mae_id>> ELSE <<>>
    IN  /\ h # <<>>
        /\ n.name = h[1].nome
        /\ [i \in 1..Len(n.children) |-> n.children[i].id] = f \o m

\* C3: at every node above the last generation the children are the
\* father's subtree if fatherId names a record, then the mother's if
\* motherId names a record: nothing for an absent or dangling id, and the
\* father first.
C3_ChildrenFatherThenMother ==
    Materialized =>
        \A k \in 0..(treeDepth - 2) : \A n \in Range(TreeLevel(treeData, k)) :
            ChildrenAsClaimed(n)

\* The root has both parents resolved, father first, and a node of the next
\* generation has a dangling father, which gives it no child.
C3_Witness ==
    /\ Materialized
    /\ treeDepth >= 3
    /\ Len(treeData[1].children) = 2
    /\ treeData[1].children[1].id # treeData[1].children[2].id
    /\ treeData[1].children[1].id = treeRoot[1].pai_id
    /\ \E n \in Range(TreeLevel(treeData, 1)) :
          LET h == Find(horses, n.id)[1]
          IN  /\ h.pai_id # Null
              /\ h.pai_id \notin Ids(horses)
              /\ n.children = <<>>

\* From depth k on (level: the nodes at depth k, count: the walks of k
\* steps from the root to each record), every record has as many nodes as
\* walks, and every node's subtree is the materialization of its horse with
\* the remaining depth.
RECURSIVE NodePerPathFrom(_, _, _)
NodePerPathFrom(level, count, k) ==
    k < treeDepth =>
        /\ \A j \in DOMAIN horses : CountId(level, horses[j].id) = count[j]
        /\ \A n \in Range(level) :
              <<n>> = buildD3AncestryData(Find(horses, n.id), horses, treeDepth - k, 0)
        /\ NodePerPathFrom(ChildrenOfAll(level), WalkStep(horses, count, 1), k + 1)

\* C4: no deduplication: at each depth k < d a horse has one node per
\* lineage path of k steps from the root, and each node's subtree is the
\* materialization of that horse with the remaining depth and nothing else.
C4_OneNodePerPath ==
    Materialized => NodePerPathFrom(treeData, UnitAt(horses, treeRoot[1].id, 1), 0)

\* The same horse is reached along two lineage paths and has two nodes, each
\* with children of its own.
C4_Witness ==
    /\ Materialized
    /\ \E k \in 1..(treeDepth - 1) :
          LET level == TreeLevel(treeData, k)
          IN  \E i, j \in DOMAIN level :
                 /\ i # j
                 /\ level[i].id = level[j].id
                 /\ level[i].children # <<>>

\* ------------------------------------------------- claims on the handlers

\* The two collections hold the same records (ids are unique in the table).
SameRecords(a, b) == Len(a) = Len(b) /\ Range(a) = Range(b)

\* C5: in addHorse with a photo attached, when the upload fails or no
\* public URL comes back, no insert request is sent for that call and the
\* collection in memory is as it was; an insert request of a call with a
\* photo carries the public URL obtained after a successful upload.
C5_NoInsertWithoutPhotoUrl ==
    /\ (addOp.phase = "upload") => (addOp.inserts = 0 /\ Pending("insert") = {})
    /\ (addOp.phase = "failed" /\ addOp.failedAt \in {"upload", "url"}) =>
          /\ addOp.inserts = 0
          /\ Pending("insert") = {}
          /\ horses = addOp.before
          /\ SameRecords(horses, db)
    /\ \A i \in Pending("insert") :
          inflight[i].data.photoFile => inflight[i].photoUrl = PhotoUrl

\* An addHorse call with a photo has ended because the upload succeeded
\* without a public URL.
C5_Witness ==
    /\ addOp.phase = "failed"
    /\ addOp.failedAt = "url"
    /\ addOp.form.selectedFile
    /\ horses # <<>>

\* C6: when addHorse fails at the upload or at the insert, the user is
\* shown the add form, still holding the values that were submitted.
C6_FormRetainedAfterFailure ==
    addOp.phase = "failed" =>
        /\ viewMode = "add"
        /\ Content = "add"
        /\ form = addOp.form

\* C7: when addHorse succeeds, the collection is the one before the call
\* with the row returned by the store appended, the view is the list and no
\* fetch has been sent.
C7_AppendedAfterSuccess ==
    addOp.phase = "done" =>
        /\ horses = Append(addOp.before, addOp.row[1])
        /\ addOp.row[1] = db[Len(db)]
        /\ viewMode = "list"
        /\ Pending("fetch") = {}

\* What a fetchHorses call that came back leaves: after a failure the error
\* panel, with its retry button, and no request in flight; after a success
\* the fetched records, no error, and the panel of the current view.
C8_FetchOutcome ==
    /\ fetchOp.phase = "failed" =>
          /\ Content = "error"
          /\ error = FetchFailedMessage
          /\ inflight = <<>>
    /\ fetchOp.phase = "pending" => Pending("fetch") # {}
    /\ fetchOp.phase = "done" =>
          /\ SameRecords(horses, db)
          /\ error = <<>>
          /\ Content \notin {"loading", "error", "blank"}
          /\ Content = "list" <=> viewMode = "list"

C9_ShareLinkRoundTrip ==
    \A i \in DOMAIN db :
        (mounted /\ location = ShareUrl(db[i].id)) =>
            /\ ~crashed
            /\ viewMode = "details"
            /\ isSharedView
            /\ fetchOp.phase = "done" =>
                  /\ Find(horses, selectedHorseId) = <<db[i]>>
                  /\ Content = "details"

\* C10: every step from the details view to the list view, from whichever
\* panel of the details view, leaves the shared flag false.
C10_BackClearsSharedFlag ==
    [][(viewMode = "details" /\ viewMode' = "list") => ~isSharedView']_vars

\* C11: at most one addHorse call (its upload or its insert) is in flight,
\* the insert of a call with a photo is sent only once its upload has
\* answered, and while a request is in flight the user is shown nothing
\* that starts another: neither the retry button nor the form.
C11_OneOperationInFlight ==
    /\ Cardinality(Pending("upload") \cup Pending("insert")) <= 1
    /\ \A i \in Pending("insert") :
          inflight[i].data.photoFile => inflight[i].photoUrl = PhotoUrl
    /\ inflight # <<>> => Content \notin {"error", "add"}

\* C12: as an ordered sequence the collection changes only when a fetch
\* succeeds (it becomes the fetched rows) or an addHorse succeeds (the new
\* row is appended at the end); every other step of a loaded page, navigation
\* and rendering included, leaves its contents and its order as they were.
C12_ChangesOnlyByFetchOrAdd ==
    [][ \/ horses' = horses
        \/ ~mounted'
        \/ FetchSucceeds /\ horses' = db
        \/ InsertSucceeds /\ horses' = Append(horses, db'[Len(db')])
      ]_vars

\* C13: while the shared flag is set the view is details: the add form and
\* the lineage tree are not shown and no addHorse call is in flight.
C13_SharedViewReadOnly ==
    isSharedView =>
        /\ viewMode = "details"
        /\ Content \notin {"add", "lineageTree", "rootNotFound"}
        /\ Pending("upload") \cup Pending("insert") = {}

\* While the view is the lineage tree the selected id is set and resolves in
\* the collection, and the tree shown has the selected horse as its root.
C14_RootResolves ==
    viewMode = "lineageTree" =>
        /\ selectedHorseId # Null
        /\ Find(horses, selectedHorseId) # <<>>
        /\ Content # "rootNotFound"
        /\ Content = "lineageTree" =>
              /\ treeData # <<>>
              /\ treeData[1].id = selectedHorseId
              /\ NodeIds(treeData) \subseteq Ids(horses)

\* C14: whenever the view is the lineage tree the selected id is non-null
\* and resolves to a record of the collection, so the root is materialized
\* and the root-not-found panel is never shown; and a click on a node of the
\* tree leads to the details of a record of the collection, never to the
\* not-found panel.
C14_TreeRootAlwaysResolves ==
    /\ []C14_RootResolves
    /\ [][TreeNodeClick =>
             /\ Content' = "details"
             /\ Find(horses', selectedHorseId') # <<>>]_vars

\* A tree is shown whose root has a parent node, over a collection in which
\* some parent reference resolves to no record.
C14_Witness ==
    /\ Content = "lineageTree"
    /\ treeData[1].children # <<>>
    /\ \E i \in DOMAIN horses :
          horses[i].mae_id # Null /\ horses[i].mae_id \notin Ids(horses)

\* The pedigree of a collection is well-formed: ids are unique, no horse is
\* its own ancestor, and every father (mother) reference names a record of
\* the collection whose sex is Macho (Femea).
WellFormedPedigree(coll) ==
    /\ \A i, j \in DOMAIN coll : coll[i].id = coll[j].id => i = j
    /\ ~HasCycle(coll)
    /\ \A i \in DOMAIN coll :
          /\ coll[i].pai_id # Null =>
                \E j \in DOMAIN coll : coll[j].id = coll[i].pai_id /\ coll[j].sexo = Macho
          /\ coll[i].mae_id # Null =>
                \E j \in DOMAIN coll : coll[j].id = coll[i].mae_id /\ coll[j].sexo = Femea

\* A parent reference of a new row: absent (never the empty string), or the
\* id of a horse of the given sex that the collection already holds.
ParentRefOfForm(ref, coll, sexo) ==
    \/ ref = Null
    \/ /\ ref.s # <<>>
       /\ \E j \in DOMAIN coll : coll[j].id = ref /\ coll[j].sexo = sexo

\* C15: every successful addHorse from the form creates a row with a fresh
\* id whose father is absent or an already-present Macho and whose mother is
\* absent or an already-present Femea, leaves every existing record as it
\* was, and so takes a well-formed pedigree (in memory and in the table) to a
\* well-formed pedigree.
C15_FormKeepsPedigreeWellFormed ==
    [][InsertSucceeds =>
          LET row == db'[Len(db')]
          IN  /\ Len(db') = Len(db) + 1
              /\ SubSeq(db', 1, Len(db)) = db
              /\ row.id \notin Ids(db) \cup Ids(horses)
              /\ ParentRefOfForm(row.pai_id, horses, Macho)
              /\ ParentRefOfForm(row.mae_id, horses, Femea)
              /\ Range(horses') = Range(horses) \cup {row}
              /\ Len(horses') = Len(horses) + 1
              /\ WellFormedPedigree(horses) => WellFormedPedigree(horses')
              /\ WellFormedPedigree(db) => WellFormedPedigree(db')
      ]_vars

\* A foal with a father and a mother picked in the form has been added to a
\* well-formed pedigree.
C15_Witness ==
    /\ addOp.phase = "done"
    /\ addOp.row[1].pai_id # Null
    /\ addOp.row[1].mae_id # Null
    /\ addOp.row[1] \in Range(horses)
    /\ WellFormedPedigree(horses)
    /\ WellFormedPedigree(db)

====
